---- MODULE Spec2Model ----
(***************************************************************************)
(* A model of the logaro hierarchical JSON logger: the Logger tree         *)
(* (GenerateLogger, Child, WithFields, WithSerializers), the level filter  *)
(* (isEnabled), the field merger (mergeFields), the serializer step        *)
(* (serializeEntry) and Log.                                               *)
(*                                                                         *)
(* Go maps are reference values: EventFields holds an address into the     *)
(* heap `maps`; a map built by make() inside a call has address 0 until it *)
(* is stored in a logger.                                                  *)
(***************************************************************************)
EXTENDS Integers, Sequences, FiniteSets, TLC

VARIABLES loggers, maps, hist, last

vars == <<loggers, maps, hist, last>>

----------------------------------------------------------------------------
(* Bounds and input sets *)

MaxLoggers == 3

MaxLevelLoggers == 2

MaxChildLoggers == 4

Empty == <<>>

NilMap == [isNil |-> TRUE, kv |-> Empty]

GoMap(kv) == [isNil |-> FALSE, kv |-> kv]

KnownLevels == {"debug", "info", "warn", "error", "fatal"}

AllLevels == KnownLevels \cup {"trace"}

FieldArgs == {NilMap, GoMap("a" :> 1), GoMap("a" :> 2), GoMap("b" :> 2)}

CallFields == {NilMap, GoMap("a" :> 3)}

NoTable == Empty

Tables == {NoTable, "a" :> "mask", "b" :> "mask"}

Messages == {"msg"}

Times == {"2026-01-01T00:00:00Z"}

----------------------------------------------------------------------------
(* Level filter *)

levels(name) ==
  CASE name = "fatal" -> 5
    [] name = "error" -> 4
    [] name = "warn"  -> 3
    [] name = "info"  -> 2
    [] name = "debug" -> 1
    [] OTHER -> 0

isEnabled_always(L, l, level) == TRUE

isEnabled(L, l, level) == levels(level) >= levels(L[l].Level)

----------------------------------------------------------------------------
(* Field merger *)

rangeOf(m) == IF m.isNil THEN Empty ELSE m.kv

Overlay(m, f) ==
  [k \in (DOMAIN m) \cup (DOMAIN f) |-> IF k \in DOMAIN f THEN f[k] ELSE m[k]]

\* mergedFields[key] = val for every pair of kv; a map that lives in the heap
\* is updated in place
assignAll(s, kv) ==
  LET v == Overlay(s.kv, kv)
  IN  [s EXCEPT !.kv = v,
                !.heap = IF s.ref = 0 THEN s.heap ELSE [s.heap EXCEPT ![s.ref] = v]]

RECURSIVE mergeFields(_, _, _, _)

mergeFields_alias(L, h, l, fields) ==
  LET made == [isNil |-> FALSE, ref |-> L[l].EventFields,
               kv |-> h[L[l].EventFields], heap |-> h]
      mergedFields ==
        IF L[l].Parent # 0
          THEN mergeFields(L, h, L[l].Parent,
                           GoMap(h[L[L[l].Parent].EventFields]))
          ELSE made
      own == assignAll(mergedFields, mergedFields.heap[L[l].EventFields])
  IN  assignAll(own, rangeOf(fields))

mergeFields_ownWins(L, h, l, fields) ==
  LET made == [isNil |-> FALSE, ref |-> 0, kv |-> Empty, heap |-> h]
      mergedFields ==
        IF L[l].Parent # 0
          THEN mergeFields(L, h, L[l].Parent,
                           GoMap(h[L[L[l].Parent].EventFields]))
          ELSE made
      call == assignAll(mergedFields, rangeOf(fields))
  IN  assignAll(call, call.heap[L[l].EventFields])

mergeFields(L, h, l, fields) ==
  LET made == [isNil |-> FALSE, ref |-> 0, kv |-> Empty, heap |-> h]
      mergedFields ==
        IF L[l].Parent # 0
          THEN mergeFields(L, h, L[l].Parent,
                           GoMap(h[L[L[l].Parent].EventFields]))
          ELSE made
      own == assignAll(mergedFields, mergedFields.heap[L[l].EventFields])
  IN  assignAll(own, rangeOf(fields))

----------------------------------------------------------------------------
(* Serializers *)

NilSerializer == [isNil |-> TRUE, table |-> NoTable]

transform(name, val) == IF name = "mask" THEN 0 ELSE val

\* The closure installed by WithSerializers, applied to a string: the type
\* assertion data.(map[string]interface{}) panics inside the first iteration
\* of the loop over the table.
compositeOnString(table, str) ==
  [panic |-> DOMAIN table # {}, str |-> str]

\* The closure applied to a map: rewrites, in place, the keys the table names.
compositeOnMap(table, m) ==
  LET v == [k \in DOMAIN m.kv |->
              IF k \in DOMAIN table THEN transform(table[k], m.kv[k]) ELSE m.kv[k]]
  IN  [m EXCEPT !.kv = v,
                !.heap = IF m.ref = 0 THEN m.heap ELSE [m.heap EXCEPT ![m.ref] = v]]

\* Result: the entry, whether the call panicked, and the serializer
\* invocations made (whose table, on which kind of value).
serializeEntry(L, l, entry) ==
  IF L[l].Serializer.isNil
    THEN [panic |-> FALSE, entry |-> entry, calls |-> <<>>]
    ELSE LET t == L[l].Serializer.table
             m == compositeOnString(t, entry.Message)
             c1 == <<[table |-> t, on |-> "message"]>>
         IN  IF m.panic
               THEN [panic |-> TRUE, entry |-> entry, calls |-> c1]
               ELSE [panic |-> FALSE,
                     entry |-> [entry EXCEPT !.Message = m.str,
                                             !.Fields = compositeOnMap(t, entry.Fields)],
                     calls |-> Append(c1, [table |-> t, on |-> "fields"])]

----------------------------------------------------------------------------
(* Logger construction *)

GenerateLogger(addr) ==
  [Level |-> "info", Writer |-> "stdout", Parent |-> 0, Children |-> <<>>,
   EventFields |-> addr, Serializer |-> NilSerializer]

\* The child built by Child, and the heap after it: the merged map is stored
\* at a new address unless it already lives in the heap.
newChild_defaultLevel(L, h, l, fields) ==
  LET r == mergeFields(L, h, l, fields)
      addr == IF r.ref = 0 THEN Len(r.heap) + 1 ELSE r.ref
  IN  [child |-> [GenerateLogger(addr) EXCEPT !.Parent = l],
       heap |-> IF r.ref = 0 THEN Append(r.heap, r.kv) ELSE r.heap]

newChild_sharedWriter(L, h, l, fields) ==
  LET r == mergeFields(L, h, l, fields)
      addr == IF r.ref = 0 THEN Len(r.heap) + 1 ELSE r.ref
  IN  [child |-> [GenerateLogger(addr) EXCEPT !.Level = L[l].Level, !.Parent = l,
                                              !.Writer = L[l].Writer],
       heap |-> IF r.ref = 0 THEN Append(r.heap, r.kv) ELSE r.heap]

newChild_inheritSerializer(L, h, l, fields) ==
  LET r == mergeFields(L, h, l, fields)
      addr == IF r.ref = 0 THEN Len(r.heap) + 1 ELSE r.ref
  IN  [child |-> [GenerateLogger(addr) EXCEPT !.Level = L[l].Level, !.Parent = l,
                                              !.Serializer = L[l].Serializer],
       heap |-> IF r.ref = 0 THEN Append(r.heap, r.kv) ELSE r.heap]

newChild(L, h, l, fields) ==
  LET r == mergeFields(L, h, l, fields)
      addr == IF r.ref = 0 THEN Len(r.heap) + 1 ELSE r.ref
  IN  [child |-> [GenerateLogger(addr) EXCEPT !.Level = L[l].Level, !.Parent = l],
       heap |-> IF r.ref = 0 THEN Append(r.heap, r.kv) ELSE r.heap]

----------------------------------------------------------------------------
(* Log *)

newEntry_loggerLevel(L, h, l, level, message, fields, now) ==
  [Timestamp |-> now, Message |-> message, Level |-> L[l].Level,
   Fields |-> mergeFields(L, h, l, fields)]

newEntry(L, h, l, level, message, fields, now) ==
  [Timestamp |-> now, Message |-> message, Level |-> level,
   Fields |-> mergeFields(L, h, l, fields)]

\* What the sink is handed: the entry with its Fields as a plain map value
wire(entry) ==
  [Timestamp |-> entry.Timestamp, Message |-> entry.Message, Level |-> entry.Level,
   Fields |-> [isNil |-> entry.Fields.isNil, kv |-> entry.Fields.kv]]

Quiet(op, l) ==
  [op |-> op, l |-> l, level |-> "", message |-> "", fields |-> NilMap,
   encodes |-> <<>>, diag |-> 0, panicked |-> FALSE, serCalls |-> <<>>, made |-> 0]

----------------------------------------------------------------------------
(* State *)

Init ==
  /\ maps = <<Empty>>
  /\ loggers = <<GenerateLogger(1)>>
  /\ hist = <<[via |-> "GenerateLogger", by |-> 0, given |-> Empty,
               table |-> NoTable, born |-> Empty, bySink |-> "none"]>>
  /\ last = Quiet("GenerateLogger", 1)

Log(l, level, message, fields, encodeOK, now) ==
  /\ l \in 1..Len(loggers)
  /\ IF isEnabled(loggers, l, level)
       THEN LET e0 == newEntry(loggers, maps, l, level, message, fields, now)
                s  == IF ~loggers[l].Serializer.isNil
                        THEN serializeEntry(loggers, l, e0)
                        ELSE [panic |-> FALSE, entry |-> e0, calls |-> <<>>]
            IN  /\ maps' = s.entry.Fields.heap
                /\ last' = [Quiet("Log", l) EXCEPT
                              !.level = level, !.message = message, !.fields = fields,
                              !.serCalls = s.calls,
                              !.panicked = s.panic,
                              !.encodes = IF s.panic THEN <<>>
                                          ELSE <<[dest |-> loggers[l].Writer,
                                                  entry |-> wire(s.entry),
                                                  ok |-> encodeOK]>>,
                              !.diag = IF ~s.panic /\ ~encodeOK THEN 1 ELSE 0]
       ELSE /\ maps' = maps
            /\ last' = [Quiet("Log", l) EXCEPT
                          !.level = level, !.message = message, !.fields = fields]
  /\ UNCHANGED <<loggers, hist>>

Derive(l, fields, via, table, serializer, max) ==
  /\ l \in 1..Len(loggers)
  /\ Len(loggers) < max
  /\ LET c  == newChild(loggers, maps, l, fields)
         id == Len(loggers) + 1
         ch == IF via = "Child" THEN c.child
               ELSE [c.child EXCEPT !.Serializer = serializer]
     IN  /\ maps' = c.heap
         /\ loggers' = Append([loggers EXCEPT ![l].Children = Append(@, id)], ch)
         /\ hist' = Append(hist, [via |-> via, by |-> l, given |-> rangeOf(fields),
                                  table |-> table, born |-> c.heap[ch.EventFields],
                                  bySink |-> loggers[l].Writer])
         /\ last' = [Quiet(via, l) EXCEPT !.made = id]

Child(l, fields, max) == Derive(l, fields, "Child", NoTable, NilSerializer, max)

WithFields(l, fields, max) ==
  /\ l \in 1..Len(loggers)
  /\ Derive(l, fields, "WithFields", NoTable, loggers[l].Serializer, max)

WithSerializers(l, serializers, max) ==
  Derive(l, NilMap, "WithSerializers", serializers,
         [isNil |-> FALSE, table |-> serializers], max)

SetLevel(l, level) ==
  /\ l \in 1..Len(loggers)
  /\ loggers' = [loggers EXCEPT ![l].Level = level]
  /\ last' = Quiet("SetLevel", l)
  /\ UNCHANGED <<maps, hist>>

SetWriter(l, writer) ==
  /\ l \in 1..Len(loggers)
  /\ loggers' = [loggers EXCEPT ![l].Writer = writer]
  /\ last' = Quiet("SetWriter", l)
  /\ UNCHANGED <<maps, hist>>

---------------------------------------------------------------------------------------------------------------------------------------------------
(* Specifications *)

\* the logger tree with field maps and serializer tables
Next ==
  \/ \E l \in DOMAIN loggers, c \in {"debug", "info"}, m \in Messages,
        f \in CallFields, ok \in BOOLEAN, t \in Times : Log(l, c, m, f, ok, t)
  \/ \E l \in DOMAIN loggers, f \in FieldArgs \ {NilMap} : Child(l, f, MaxLoggers)
  \/ \E l \in DOMAIN loggers, f \in {NilMap, GoMap("b" :> 2)} :
        WithFields(l, f, MaxLoggers)
  \/ \E l \in DOMAIN loggers, s \in Tables : WithSerializers(l, s, MaxLoggers)

Spec == Init /\ [][Next]_vars

\* every level name as configured and as call level; callers reassign Level
NextLevel ==
  \/ \E l \in DOMAIN loggers, c \in AllLevels, m \in Messages, t \in Times :
        Log(l, c, m, NilMap, TRUE, t)
  \/ \E l \in DOMAIN loggers : Child(l, GoMap("a" :> 1), MaxLevelLoggers)
  \/ \E l \in DOMAIN loggers : WithFields(l, NilMap, MaxLevelLoggers)
  \/ \E l \in DOMAIN loggers : WithSerializers(l, "a" :> "mask", MaxLevelLoggers)
  \/ \E l \in DOMAIN loggers, v \in AllLevels : SetLevel(l, v)

SpecLevel == Init /\ [][NextLevel]_vars

\* callers reassign Writer
NextWriter ==
  \/ \E l \in DOMAIN loggers, m \in Messages, ok \in BOOLEAN, t \in Times :
        Log(l, "info", m, NilMap, ok, t)
  \/ \E l \in DOMAIN loggers : Child(l, NilMap, MaxLoggers)
  \/ \E l \in DOMAIN loggers : WithFields(l, GoMap("a" :> 1), MaxLoggers)
  \/ \E l \in DOMAIN loggers : WithSerializers(l, NoTable, MaxLoggers)
  \/ \E l \in DOMAIN loggers, w \in {"stdout", "S"} : SetWriter(l, w)

SpecWriter == Init /\ [][NextWriter]_vars

\* trees built by Child alone
NextChild ==
  \/ \E l \in DOMAIN loggers, c \in {"debug", "info"}, m \in Messages,
        f \in CallFields, ok \in BOOLEAN, t \in Times : Log(l, c, m, f, ok, t)
  \/ \E l \in DOMAIN loggers, f \in FieldArgs \ {NilMap} :
        Child(l, f, MaxChildLoggers)

SpecChild == Init /\ [][NextChild]_vars

----------------------------------------------------------------------------
(* Properties *)

\* the severity table of the level filter as documented
severity(name) ==
  IF name = "debug" THEN 1 ELSE IF name = "info" THEN 2 ELSE IF name = "warn" THEN 3
  ELSE IF name = "error" THEN 4 ELSE IF name = "fatal" THEN 5 ELSE 0

Passes == severity(last.level) >= severity(loggers[last.l].Level)

RECURSIVE PathFields(_)

\* overlay, root first, of the maps given along the path from the root to i
PathFields(i) ==
  IF hist[i].by = 0 THEN Empty ELSE Overlay(PathFields(hist[i].by), hist[i].given)

RECURSIVE ChildChain(_)

ChildChain(i) ==
  hist[i].by = 0 \/ (hist[i].via = "Child" /\ ChildChain(hist[i].by))

\* C1: a Log call hands an entry to the sink iff severity(call level) >=
\* severity(configured level), unknown names having severity 0.
C1_EmitsIffSevere ==
  last.op = "Log" => ((Len(last.encodes) = 1) <=> Passes)

\* C2: on a logger made by WithSerializers(T), T non-empty, an enabled Log
\* call writes one entry whose fields are the merged fields with T[k] applied
\* to every key k of T and every other key unchanged.
C2_TransformedFields ==
  (/\ last.op = "Log"
   /\ hist[last.l].via = "WithSerializers"
   /\ DOMAIN hist[last.l].table # {}
   /\ Passes)
  => /\ Len(last.encodes) = 1
     /\ LET merged == Overlay(hist[last.l].born, rangeOf(last.fields))
            T == hist[last.l].table
        IN  last.encodes[1].entry.Fields.kv =
              [k \in DOMAIN merged |->
                 IF k \in DOMAIN T THEN transform(T[k], merged[k]) ELSE merged[k]]

\* C3: a logger reached from the root by Child calls alone holds, and logs,
\* the overlay of the maps given along its own path, then the call-site
\* fields; nothing given to loggers off that path appears.
C3_PathOverlay ==
  /\ \A i \in DOMAIN loggers :
       ChildChain(i) => maps[loggers[i].EventFields] = PathFields(i)
  /\ (last.op = "Log" /\ ChildChain(last.l) /\ Passes)
       => /\ Len(last.encodes) = 1
          /\ last.encodes[1].entry.Fields.kv =
               Overlay(PathFields(last.l), rangeOf(last.fields))

C3_Witness ==
  /\ last.op = "Log" /\ Passes /\ Len(last.encodes) = 1
  /\ "a" \in DOMAIN rangeOf(last.fields)
  /\ \E b \in DOMAIN loggers :
       /\ b # last.l
       /\ hist[b].by = hist[last.l].by
       /\ hist[hist[b].by].by # 0
       /\ "a" \in DOMAIN hist[hist[b].by].given
       /\ "a" \in DOMAIN hist[last.l].given
       /\ "b" \in DOMAIN hist[b].given
       /\ "b" \notin DOMAIN last.encodes[1].entry.Fields.kv

\* C4: every Log call returns normally; a failed encode is reported once,
\* the entry is dropped and the write is not retried.
C4_LogReturns ==
  last.op = "Log" =>
    /\ ~last.panicked
    /\ Len(last.encodes) <= 1
    /\ \A k \in DOMAIN last.encodes : (~last.encodes[k].ok) => last.diag = 1

\* C5: a Log call below the logger's threshold writes nothing, reports
\* nothing, does not invoke the serializer and changes no logger.
C5_BelowThresholdNoOp ==
  [][(last'.op = "Log" /\ severity(last'.level) < severity(loggers[last'.l].Level))
       => /\ loggers' = loggers /\ maps' = maps /\ hist' = hist
          /\ last'.encodes = <<>> /\ last'.diag = 0
          /\ last'.serCalls = <<>> /\ ~last'.panicked]_vars

C5_Witness ==
  /\ last.op = "Log"
  /\ ~Passes
  /\ ~loggers[last.l].Serializer.isNil
  /\ DOMAIN loggers[last.l].Serializer.table # {}
  /\ loggers[last.l].Level # "info"

\* C6: a derived logger starts with its creator's level, and afterwards its
\* level changes only when it is itself reassigned, never with an ancestor's.
C6_LevelSnapshot ==
  [][/\ last'.made # 0 => loggers'[last'.made].Level = loggers[last'.l].Level
     /\ \A j \in DOMAIN loggers :
          loggers'[j].Level # loggers[j].Level
            => (last'.op = "SetLevel" /\ last'.l = j)]_vars

C6_Witness ==
  /\ last.op = "Log"
  /\ loggers[last.l].Parent # 0
  /\ loggers[last.l].Level = "warn"
  /\ loggers[loggers[last.l].Parent].Level = "debug"
  /\ last.level = "info"
  /\ last.encodes = <<>>

\* C7: a logger made by Child has no serializer, one made by WithFields has
\* its creator's, one made by WithSerializers(T) has the composite of T alone;
\* a Log call invokes the serializer of the logger it is called on and no other.
C7_OwnSerializerOnly ==
  /\ \A i \in DOMAIN loggers :
       /\ hist[i].via \in {"GenerateLogger", "Child"} => loggers[i].Serializer.isNil
       /\ hist[i].via = "WithFields"
            => loggers[i].Serializer = loggers[hist[i].by].Serializer
       /\ hist[i].via = "WithSerializers"
            => loggers[i].Serializer = [isNil |-> FALSE, table |-> hist[i].table]
  /\ last.op = "Log" =>
       \A k \in DOMAIN last.serCalls :
         /\ ~loggers[last.l].Serializer.isNil
         /\ last.serCalls[k].table = loggers[last.l].Serializer.table

C7_Witness ==
  /\ last.op = "Log"
  /\ last.serCalls # <<>>
  /\ hist[last.l].via = "WithSerializers"
  /\ ~loggers[hist[last.l].by].Serializer.isNil
  /\ loggers[hist[last.l].by].Serializer.table # loggers[last.l].Serializer.table
  /\ DOMAIN loggers[hist[last.l].by].Serializer.table # {}

\* C8: every logger's eventFields map keeps the keys and values it had when
\* the logger was created.
C8_EventFieldsFixed ==
  \A i \in DOMAIN loggers : maps[loggers[i].EventFields] = hist[i].born

C8_Witness ==
  /\ last.op = "Log"
  /\ Len(last.serCalls) = 2
  /\ Len(last.encodes) = 1
  /\ loggers[last.l].Parent # 0
  /\ hist[loggers[last.l].Parent].born # Empty
  /\ rangeOf(last.fields) # Empty
  /\ last.encodes[1].entry.Fields.kv # hist[last.l].born

\* C9: an enabled Log call writes exactly one entry, with the call's level,
\* with the call's message when the logger has no serializer, and with a
\* fields map that is present.
C9_OneEntryPerCall ==
  (last.op = "Log" /\ Passes) =>
    /\ Len(last.encodes) = 1
    /\ last.encodes[1].entry.Level = last.level
    /\ loggers[last.l].Serializer.isNil
         => last.encodes[1].entry.Message = last.message
    /\ ~last.encodes[1].entry.Fields.isNil

====
